---------------------------- MODULE Spec2Model ----------------------------
(***************************************************************************)
(* Omnitutor: the completion routing and resilience layer.                 *)
(*                                                                         *)
(* The four sendMessage implementations of the repository are modelled as  *)
(* one state machine whose steps are the stretches of code between two     *)
(* awaits:                                                                 *)
(*   useAI_attachment  src/hooks/useAI.ts      13-170  (image route, Groq, *)
(*                                                      Gemini fallback)   *)
(*   useAI_text        src/hooks/useAI.ts      184-295 (Groq, fallback)    *)
(*   useGemini_retry   src/hooks/useGemini.ts  12-96   (retry loop)        *)
(*   useGemini_plain   src/hooks/useGemini.ts  107-164 (single call)       *)
(* A provider is an environment that answers each call with a text or      *)
(* with an error object {message, status}.                                 *)
(***************************************************************************)
EXTENDS Integers, Sequences, FiniteSets, TLC

VARIABLES
    hook,           \* which sendMessage implementation this hook instance runs
    env,            \* the credentials: [groq, gemini, apiKey : BOOLEAN]
    req,            \* the arguments of the current invocation
    isLoading,      \* useState(false)
    error,          \* useState<string | null>(null)
    statusMessage,  \* useState<string | null>(null)
    pc,             \* where the invocation is suspended
    attempt,        \* let attempt = 0
    trace,          \* what the current invocation did, in order
    outcome,        \* how the current invocation ended
    ncalls,         \* invocations started on this hook so far
    sent,           \* what the current invocation handed to the providers, in order
    prev,           \* what the hook exposed when the current invocation started
    pin,            \* the arguments given to the request builders
    pout,           \* what the request builders made of them
    inv,            \* two invocations overlapping on one hook instance
    store,          \* the storage mock and the useFirestore hook over it
    voice           \* the useVoice hook and its recognition engine

vars == <<hook, env, req, isLoading, error, statusMessage, pc, attempt,
          trace, outcome, ncalls, sent, prev, pin, pout, inv, store, voice>>

\* The parts of the repository a specification does not exercise stay absent.
Absent == <<>>
SideVars == <<inv, store, voice>>

-----------------------------------------------------------------------------
(* Bounds *)

MaxCalls == 2

\* addMessage calls, changes of the subject prop, and the clock's range
MaxAdds == 2
MaxRenders == 1
MaxSeconds == 1

\* calls and recognition events followed in one run of useVoice
MaxVoiceLog == 6

-----------------------------------------------------------------------------
(* Values *)

Hooks == {"useAI_attachment", "useAI_text", "useGemini_retry", "useGemini_plain"}

\* string | null as a sequence of length at most one
None == <<>>
Some(x) == <<x>>

\* Messages of Error objects are sequences of words, so that
\* message.includes('429') is a search and not a lookup.
GroqKeyMissing == <<"Groq", "API", "Key", "missing">>
GeminiKeyMissing == <<"Gemini", "API", "Key", "missing">>
GeminiKeyNotConfiguredVite ==
    <<"Gemini", "API", "Key", "is", "not", "configured", "(VITE_GEMINI_API_KEY", "missing).">>
GeminiKeyNotConfigured == <<"Gemini", "API", "Key", "is", "not", "configured.">>
EmptyResponseFromGroq == <<"Empty", "response", "from", "Groq">>
MaxRetriesExceededOnFallback == <<"Max", "retries", "exceeded", "on", "fallback.">>
MaxRetriesExceeded == <<"Max", "retries", "exceeded.">>
FailedToAnalyzeImage == <<"Failed", "to", "analyze", "image.">>
AllServicesBusy == <<"All", "AI", "services", "are", "currently", "busy.">>
FailedToCommunicate == <<"Failed", "to", "communicate", "with", "Gemini.">>

AnalyzingImage == "Analyzing image..."
TrafficHigh == "Traffic high. Switching to backup AI..."
ServerBusyBackup == "Server busy. Retrying backup connection..."
ServerIsBusy == "Server is busy (High Traffic). Retrying in 3 seconds..."
RetryingNow == "Retrying now..."

\* new Error(message): no status property
NewError(message) == [message |-> message, status |-> 0]
NoError == NewError(<<>>)

\* What a provider can throw: message absent or empty (<<>>), with or without
\* "429" in it; status absent (0) or 429 or another HTTP status.
ProviderMessages ==
    {<<>>, <<"Network", "error">>, <<"[", "429", "Too", "Many", "Requests", "]">>,
     <<"Error", "429", "quota">>}
ProviderErrors == [message : ProviderMessages, status : {0, 429, 503}]

\* What a provider can answer: the empty text included.
Texts == {"", "text A", "text B"}

Results ==
    [ok : {TRUE}, text : Texts, err : {NoError}]
        \cup [ok : {FALSE}, text : {""}, err : ProviderErrors]

Attachments == {"none", "text", "image"}

\* Texts of the caller are sequences of words.  att is attachment?.type
\* ("none": no attachment), content is attachment.content.
UserTexts == {<<"explain">>, <<"solve", "x">>}
AttachmentContents == {<<"def", "f">>}

Requests(h) ==
    IF h = "useAI_attachment"
    THEN [att : {"none"}, text : UserTexts, content : {<<>>}]
            \cup [att : {"text", "image"}, text : UserTexts, content : AttachmentContents]
    ELSE [att : {"none"}, text : UserTexts, content : {<<>>}]

-----------------------------------------------------------------------------
(* The record of an invocation *)

EvCall(who) == [ev |-> "call", who |-> who, ok |-> FALSE, text |-> "", err |-> NoError]
EvResult(who, res) ==
    [ev |-> "result", who |-> who, ok |-> res.ok, text |-> res.text, err |-> res.err]
EvStatus(m) == [ev |-> "status", who |-> m, ok |-> FALSE, text |-> "", err |-> NoError]
EvWait == [ev |-> "wait", who |-> "setTimeout", ok |-> FALSE, text |-> "", err |-> NoError]

NoOutcome == [kind |-> "none", text |-> "", err |-> NoError]


-----------------------------------------------------------------------------
(* Pieces shared by the implementations.  s is the state of the hook and   *)
(* of the running invocation: [isLoading, error, statusMessage, pc,        *)
(* attempt, trace, outcome].                                               *)

Cur ==
    [isLoading |-> isLoading, error |-> error, statusMessage |-> statusMessage,
     pc |-> pc, attempt |-> attempt, trace |-> trace, outcome |-> outcome,
     req |-> req, sent |-> sent]

Commit(s) ==
    /\ isLoading' = s.isLoading
    /\ error' = s.error
    /\ statusMessage' = s.statusMessage
    /\ pc' = s.pc
    /\ attempt' = s.attempt
    /\ trace' = s.trace
    /\ outcome' = s.outcome
    /\ req' = s.req
    /\ sent' = s.sent

\* Variant: the error of the previous invocation is not cleared.
Reset_KeepsError(s) ==
    [s EXCEPT !.isLoading = TRUE, !.statusMessage = None,
              !.attempt = 0, !.trace = <<>>, !.outcome = NoOutcome, !.pc = "running",
              !.sent = <<>>]

\* Variant: the busy flag is not raised.
Reset_NotBusy(s) ==
    [s EXCEPT !.error = None, !.statusMessage = None,
              !.attempt = 0, !.trace = <<>>, !.outcome = NoOutcome, !.pc = "running",
              !.sent = <<>>]

\* setIsLoading(true); setError(null); setStatusMessage(null);
Reset(s) ==
    [s EXCEPT !.isLoading = TRUE, !.error = None, !.statusMessage = None,
              !.attempt = 0, !.trace = <<>>, !.outcome = NoOutcome, !.pc = "running",
              !.sent = <<>>]

\* setStatusMessage("...")
SetStatus(s, m) ==
    [s EXCEPT !.statusMessage = Some(m), !.trace = Append(@, EvStatus(m))]

\* setError(e.message || fallbackText)
SetError(s, e, fallbackText) ==
    [s EXCEPT !.error = Some(IF e.message # <<>> THEN e.message ELSE fallbackText)]

\* await <provider call>: the invocation is suspended until the provider answers
Await(s, who) == [s EXCEPT !.pc = who, !.trace = Append(@, EvCall(who))]

\* await <provider call>(prompt)
Send(s, who, prompt) ==
    [Await(s, who) EXCEPT !.sent = Append(@, [who |-> who, prompt |-> prompt])]

\* await new Promise(resolve => setTimeout(resolve, 3000))
AwaitBackoff(s) == [s EXCEPT !.pc = "backoff", !.trace = Append(@, EvWait)]

Return(s, text) ==
    [s EXCEPT !.pc = "done", !.outcome = [kind |-> "return", text |-> text, err |-> NoError]]

Throw(s, e) ==
    [s EXCEPT !.pc = "done", !.outcome = [kind |-> "throw", text |-> "", err |-> e]]

\* message?.includes('429')
Includes429(message) == \E i \in 1..Len(message) : message[i] = "429"

\* const is429 = err.message?.includes('429') || err.status === 429;
is429(e) == Includes429(e.message) \/ e.status = 429

\* const maxRetries = 1;
maxRetries == 1

\* Variant: the budget test off by one (attempt <= maxRetries).
ShouldRetry_OffByOne(e, n) == is429(e) /\ n <= maxRetries

\* Variant: the error class is not looked at.
ShouldRetry_AnyError(e, n) == n < maxRetries

\* if (is429 && attempt < maxRetries)
ShouldRetry(e, n) == is429(e) /\ n < maxRetries

-----------------------------------------------------------------------------
(* useAI, attachment variant: src/hooks/useAI.ts 13-170.  No finally block. *)

\* let finalPrompt = text; if (attachment?.type === 'text') finalPrompt += ...
AIA_GroqPrompt(r) ==
    IF r.att = "text"
    THEN r.text \o <<"[Attached File Content]:">> \o r.content
    ELSE r.text

\* Variant: the fallback is sent the bare text.
AIA_ChatPrompt_TextOnly(r) == r.text

\* text + (attachment?.type === 'text' ? `File Content: ...` : '')
AIA_ChatPrompt(r) ==
    r.text \o (IF r.att = "text" THEN <<"File Content:">> \o r.content ELSE <<>>)

\* const promptParts: any[] = [{ text }];  (the image goes in as inlineData)
AIA_VisionPrompt(r) == r.text

\* catch (finalError) { setError(...); throw finalError; }
AIA_FinalError(s, e) == Throw(SetError(s, e, AllServicesBusy), e)

\* while (attempt <= maxRetries) { try { await chat.sendMessage(...) ...
AIA_RetryLoop(s) ==
    IF s.attempt <= maxRetries
    THEN Send(s, "chat", AIA_ChatPrompt(s.req))
    ELSE AIA_FinalError(s, NewError(MaxRetriesExceededOnFallback))

\* Variant: the Groq failure is published as the hook's error.
AIA_GroqCatch_SetsError(s) ==
    LET s1 == [SetError(SetStatus(s, TrafficHigh), NoError, AllServicesBusy) EXCEPT !.attempt = 0]
    IN  IF ~env.gemini
        THEN AIA_FinalError(s1, NewError(GeminiKeyMissing))
        ELSE AIA_RetryLoop(s1)

\* catch (groqError) { setStatusMessage(...); let attempt = 0; try { key check ...
AIA_GroqCatch(s) ==
    LET s1 == [SetStatus(s, TrafficHigh) EXCEPT !.attempt = 0]
    IN  IF ~env.gemini
        THEN AIA_FinalError(s1, NewError(GeminiKeyMissing))
        ELSE AIA_RetryLoop(s1)

\* Variant: a vision failure cascades to the text fallback.
AIA_VisionCatch_FallsBack(s, e) == AIA_GroqCatch(s)

\* catch (visionError) { setError(...); throw visionError; }
AIA_VisionCatch(s, e) == Throw(SetError(s, e, FailedToAnalyzeImage), e)

\* sendMessage up to its first await
AIA_Start(s, r) ==
    LET s1 == Reset([s EXCEPT !.req = r])
    IN  IF r.att = "image"
        THEN LET s2 == SetStatus(s1, AnalyzingImage)
             IN  IF ~env.gemini
                 THEN AIA_VisionCatch(s2, NewError(GeminiKeyMissing))
                 ELSE Send(s2, "vision", AIA_VisionPrompt(r))
        ELSE IF ~env.groq
             THEN AIA_GroqCatch(s1)
             ELSE Send(s1, "groq", AIA_GroqPrompt(r))

\* const result = await model.generateContent(promptParts); return response;
AIA_VisionDone(s, res) ==
    LET s1 == [s EXCEPT !.trace = Append(@, EvResult("vision", res))]
    IN  IF res.ok THEN Return(s1, res.text) ELSE AIA_VisionCatch(s1, res.err)

\* const response = ...content; if (!response) throw ...; return response;
AIA_GroqDone(s, res) ==
    LET s1 == [s EXCEPT !.trace = Append(@, EvResult("groq", res))]
    IN  IF res.ok /\ res.text # "" THEN Return(s1, res.text) ELSE AIA_GroqCatch(s1)

\* Variant: the fallback's answer is not returned from inside the loop, which
\* then runs into the throw after it.
AIA_ChatDone_NoReturn(s, res) ==
    LET s1 == [s EXCEPT !.trace = Append(@, EvResult("chat", res))]
    IN  IF res.ok
        THEN AIA_FinalError(s1, NewError(MaxRetriesExceededOnFallback))
        ELSE IF ShouldRetry(res.err, s1.attempt)
             THEN AwaitBackoff(SetStatus(s1, ServerBusyBackup))
             ELSE AIA_FinalError(s1, res.err)

\* return result.response.text(); / catch (geminiErr) { ... }
AIA_ChatDone(s, res) ==
    LET s1 == [s EXCEPT !.trace = Append(@, EvResult("chat", res))]
    IN  IF res.ok
        THEN Return(s1, res.text)
        ELSE IF ShouldRetry(res.err, s1.attempt)
             THEN AwaitBackoff(SetStatus(s1, ServerBusyBackup))
             ELSE AIA_FinalError(s1, res.err)

\* Variant: the attempt counter is not advanced.
AIA_BackoffDone_NoIncrement(s) == AIA_RetryLoop(s)

\* attempt++; continue;
AIA_BackoffDone(s) == AIA_RetryLoop([s EXCEPT !.attempt = @ + 1])

-----------------------------------------------------------------------------
(* useAI, text-only variant: src/hooks/useAI.ts 184-295 *)

\* finally { setIsLoading(false); setStatusMessage(null); }
AIT_Finally(s) == [s EXCEPT !.isLoading = FALSE, !.statusMessage = None]

AIT_FinalError(s, e) == AIT_Finally(Throw(SetError(s, e, AllServicesBusy), e))

AIT_RetryLoop(s) ==
    IF s.attempt <= maxRetries
    THEN Send(s, "chat", s.req.text)
    ELSE AIT_FinalError(s, NewError(MaxRetriesExceededOnFallback))

\* Variant: the Groq hop is retried maxRetries times before the fallback.
AIT_GroqCatch_RetriesGroq(s) ==
    IF env.groq /\ s.attempt < maxRetries
    THEN Await(AwaitBackoff([s EXCEPT !.attempt = @ + 1]), "groq")
    ELSE LET s1 == [SetStatus(s, TrafficHigh) EXCEPT !.attempt = 0]
         IN  IF ~env.gemini
             THEN AIT_FinalError(s1, NewError(GeminiKeyMissing))
             ELSE AIT_RetryLoop(s1)

\* catch (groqError) { setStatusMessage(...); let attempt = 0; try { key check ...
AIT_GroqCatch(s) ==
    LET s1 == [SetStatus(s, TrafficHigh) EXCEPT !.attempt = 0]
    IN  IF ~env.gemini
        THEN AIT_FinalError(s1, NewError(GeminiKeyMissing))
        ELSE AIT_RetryLoop(s1)

\* Variant: the backup status is published before Groq has been tried.
AIT_Start_AnnouncesBackup(s, r) ==
    LET s1 == SetStatus(Reset([s EXCEPT !.req = r]), TrafficHigh)
    IN  IF ~env.groq THEN AIT_GroqCatch(s1) ELSE Send(s1, "groq", r.text)

AIT_Start(s, r) ==
    LET s1 == Reset([s EXCEPT !.req = r])
    IN  IF ~env.groq THEN AIT_GroqCatch(s1) ELSE Send(s1, "groq", r.text)

AIT_GroqDone(s, res) ==
    LET s1 == [s EXCEPT !.trace = Append(@, EvResult("groq", res))]
    IN  IF res.ok /\ res.text # ""
        THEN AIT_Finally(Return(s1, res.text))
        ELSE AIT_GroqCatch(s1)

\* Variant: the retry is issued at once, without the backoff wait.
AIT_ChatDone_NoWait(s, res) ==
    LET s1 == [s EXCEPT !.trace = Append(@, EvResult("chat", res))]
    IN  IF res.ok
        THEN AIT_Finally(Return(s1, res.text))
        ELSE IF ShouldRetry(res.err, s1.attempt)
             THEN AIT_RetryLoop([SetStatus(s1, ServerBusyBackup) EXCEPT !.attempt = @ + 1])
             ELSE AIT_FinalError(s1, res.err)

AIT_ChatDone(s, res) ==
    LET s1 == [s EXCEPT !.trace = Append(@, EvResult("chat", res))]
    IN  IF res.ok
        THEN AIT_Finally(Return(s1, res.text))
        ELSE IF ShouldRetry(res.err, s1.attempt)
             THEN AwaitBackoff(SetStatus(s1, ServerBusyBackup))
             ELSE AIT_FinalError(s1, res.err)

AIT_BackoffDone(s) == AIT_RetryLoop([s EXCEPT !.attempt = @ + 1])

-----------------------------------------------------------------------------
(* useGemini with the retry loop: src/hooks/useGemini.ts 12-96 *)

\* finally { setIsLoading(false); setStatusMessage(null); }
GR_Finally(s) == [s EXCEPT !.isLoading = FALSE, !.statusMessage = None]

\* catch (err) { setError(errorMessage); setStatusMessage(null); throw err; }
GR_Catch(s, e) ==
    GR_Finally(Throw([SetError(s, e, FailedToCommunicate) EXCEPT !.statusMessage = None], e))

GR_RetryLoop(s) ==
    IF s.attempt <= maxRetries
    THEN Send(s, "chat", s.req.text)
    ELSE GR_Catch(s, NewError(MaxRetriesExceeded))

GR_Start(s, r) ==
    LET s1 == Reset([s EXCEPT !.req = r])
    IN  IF ~env.gemini
        THEN GR_Catch(s1, NewError(GeminiKeyNotConfiguredVite))
        ELSE GR_RetryLoop(s1)

\* Variant: a rate-limit failure with the budget spent raises "Max retries
\* exceeded." instead of the provider's error.
GR_ChatDone_RaisesExhausted(s, res) ==
    LET s1 == [s EXCEPT !.trace = Append(@, EvResult("chat", res))]
    IN  IF res.ok
        THEN GR_Finally(Return(s1, res.text))
        ELSE IF ShouldRetry(res.err, s1.attempt)
             THEN AwaitBackoff(SetStatus(s1, ServerIsBusy))
             ELSE IF is429(res.err)
                  THEN GR_Catch(s1, NewError(MaxRetriesExceeded))
                  ELSE GR_Catch(s1, res.err)

\* return response.text(); / catch (err) { ... }
GR_ChatDone(s, res) ==
    LET s1 == [s EXCEPT !.trace = Append(@, EvResult("chat", res))]
    IN  IF res.ok
        THEN GR_Finally(Return(s1, res.text))
        ELSE IF ShouldRetry(res.err, s1.attempt)
             THEN AwaitBackoff(SetStatus(s1, ServerIsBusy))
             ELSE GR_Catch(s1, res.err)

\* Variant: no status before the retry attempt.
GR_BackoffDone_NoStatus(s) == GR_RetryLoop([s EXCEPT !.attempt = @ + 1])

\* attempt++; setStatusMessage("Retrying now..."); continue;
GR_BackoffDone(s) == GR_RetryLoop(SetStatus([s EXCEPT !.attempt = @ + 1], RetryingNow))

-----------------------------------------------------------------------------
(* useGemini without retry: src/hooks/useGemini.ts 107-164.  It has no     *)
(* statusMessage.                                                          *)

\* finally { setIsLoading(false); }
GP_Finally(s) == [s EXCEPT !.isLoading = FALSE]

\* catch (err) { setError(errorMessage); throw err; }
GP_Catch(s, e) == GP_Finally(Throw(SetError(s, e, FailedToCommunicate), e))

\* setIsLoading(true); setError(null); then the key check and the call
GP_Start(s, r) ==
    LET s1 == [s EXCEPT !.isLoading = TRUE, !.error = None, !.attempt = 0,
                        !.trace = <<>>, !.outcome = NoOutcome, !.pc = "running",
                        !.sent = <<>>, !.req = r]
    IN  IF ~env.apiKey
        THEN GP_Catch(s1, NewError(GeminiKeyNotConfigured))
        ELSE Send(s1, "chat", r.text)

\* return result.text || "";
GP_ChatDone(s, res) ==
    LET s1 == [s EXCEPT !.trace = Append(@, EvResult("chat", res))]
    IN  IF res.ok THEN GP_Finally(Return(s1, res.text)) ELSE GP_Catch(s1, res.err)

-----------------------------------------------------------------------------
(* The state machine *)

\* nothing exposed yet: no invocation has run on this hook
NoPrev == [kind |-> "none", error |-> None, statusMessage |-> None]

NoInput == [subject |-> "MATH", history |-> <<>>, text |-> <<>>, att |-> "none", content |-> <<>>]
NoOutput == [impl |-> "none"]

Init ==
    /\ hook \in Hooks
    /\ env \in [groq : BOOLEAN, gemini : BOOLEAN, apiKey : BOOLEAN]
    /\ req = [att |-> "none", text |-> <<>>, content |-> <<>>]
    /\ isLoading = FALSE
    /\ error = None
    /\ statusMessage = None
    /\ pc = "idle"
    /\ attempt = 0
    /\ trace = <<>>
    /\ outcome = NoOutcome
    /\ ncalls = 0
    /\ sent = <<>>
    /\ prev = NoPrev
    /\ pin = NoInput
    /\ pout = NoOutput
    /\ inv = Absent
    /\ store = Absent
    /\ voice = Absent

\* The caller invokes sendMessage; no invocation of this hook is in flight.
Start ==
    /\ pc \in {"idle", "done"}
    /\ ncalls < MaxCalls
    /\ \E r \in Requests(hook) :
        Commit(CASE hook = "useAI_attachment" -> AIA_Start(Cur, r)
                    [] hook = "useAI_text" -> AIT_Start(Cur, r)
                    [] hook = "useGemini_retry" -> GR_Start(Cur, r)
                    [] hook = "useGemini_plain" -> GP_Start(Cur, r))
    /\ ncalls' = ncalls + 1
    /\ prev' = [kind |-> outcome.kind, error |-> error, statusMessage |-> statusMessage]
    /\ UNCHANGED <<hook, env, pin, pout, SideVars>>

\* groq.chat.completions.create settles
GroqResponds ==
    /\ pc = "groq"
    /\ \E res \in Results :
        Commit(CASE hook = "useAI_attachment" -> AIA_GroqDone(Cur, res)
                 [] hook = "useAI_text" -> AIT_GroqDone(Cur, res))
    /\ UNCHANGED <<hook, env, ncalls, prev, pin, pout, SideVars>>

\* model.generateContent settles
VisionResponds ==
    /\ pc = "vision"
    /\ \E res \in Results : Commit(AIA_VisionDone(Cur, res))
    /\ UNCHANGED <<hook, env, ncalls, prev, pin, pout, SideVars>>

\* chat.sendMessage settles
ChatResponds ==
    /\ pc = "chat"
    /\ \E res \in Results :
        Commit(CASE hook = "useAI_attachment" -> AIA_ChatDone(Cur, res)
                 [] hook = "useAI_text" -> AIT_ChatDone(Cur, res)
                 [] hook = "useGemini_retry" -> GR_ChatDone(Cur, res)
                 [] hook = "useGemini_plain" -> GP_ChatDone(Cur, res))
    /\ UNCHANGED <<hook, env, ncalls, prev, pin, pout, SideVars>>

\* the 3000 ms timer fires
BackoffElapsed ==
    /\ pc = "backoff"
    /\ Commit(CASE hook = "useAI_attachment" -> AIA_BackoffDone(Cur)
                [] hook = "useAI_text" -> AIT_BackoffDone(Cur)
                [] hook = "useGemini_retry" -> GR_BackoffDone(Cur))
    /\ UNCHANGED <<hook, env, ncalls, prev, pin, pout, SideVars>>

Next == Start \/ GroqResponds \/ VisionResponds \/ ChatResponds \/ BackoffElapsed

Spec == Init /\ [][Next]_vars

-----------------------------------------------------------------------------
(* The request builders: system instruction, history adapters, model       *)
(* selection.  They are pure; SpecBuilders applies each implementation's   *)
(* builders to arguments drawn from bounded sets.                          *)

MaxHistory == 2

\* enum Subject and enum Role (types.ts): MATH, PHYSICS, CHEMISTRY, CODING and
\* Role.USER are the members the hooks name.
Subjects == {"MATH", "PHYSICS", "CHEMISTRY", "CODING", "GENERAL"}
Roles == {"USER", "ASSISTANT"}

\* Message { role, content, attachment? }; att is attachment?.type
Messages ==
    [role : Roles, content : {<<"m1">>, <<"m2">>}, att : {"none"}, attContent : {<<>>}]
        \cup [role : Roles, content : {<<"m1">>, <<"m2">>}, att : {"text", "image"},
              attContent : {<<"file">>}]

Histories == UNION {[1..n -> Messages] : n \in 0..MaxHistory}

BuilderInputs ==
    {[subject |-> sb, history |-> h, text |-> r.text, att |-> r.att, content |-> r.content] :
        sb \in Subjects, h \in Histories, r \in Requests("useAI_attachment")}

\* [Subject.MATH, Subject.PHYSICS, Subject.CHEMISTRY].includes(subject)
IsQuantitative(subject) == subject \in {"MATH", "PHYSICS", "CHEMISTRY"}

\* ` Use LaTeX for all math equations. Wrap block equations in $$ and inline in $. ...`
MathDirective ==
    <<"Use LaTeX for all math equations. Wrap block equations in", "$$",
      "and inline in", "$", ". Provide clear, step-by-step explanations.">>

\* Variant: chemistry is not counted among the quantitative subjects.
AIA_SystemInstruction_NoChemistry(subject) ==
    <<"You are an expert", subject, "tutor.",
      "If the user asks for a comparison or list, ALWAYS format the output as a Markdown Table.">>
        \o (IF subject \in {"MATH", "PHYSICS"} THEN MathDirective ELSE <<>>)

\* useAI (attachment variant) systemInstruction
AIA_SystemInstruction(subject) ==
    <<"You are an expert", subject, "tutor.",
      "If the user asks for a comparison or list, ALWAYS format the output as a Markdown Table.">>
        \o (IF IsQuantitative(subject) THEN MathDirective ELSE <<>>)

\* useAI (text-only variant), useGemini (both variants) systemInstruction
AIT_SystemInstruction(subject) ==
    <<"You are an expert", subject, "tutor.">>
        \o (IF IsQuantitative(subject) THEN MathDirective ELSE <<>>)

GR_SystemInstruction(subject) ==
    <<"You are an expert", subject, "tutor.">>
        \o (IF IsQuantitative(subject) THEN MathDirective ELSE <<>>)

GP_SystemInstruction(subject) ==
    <<"You are an expert", subject, "tutor.">>
        \o (IF IsQuantitative(subject) THEN MathDirective ELSE <<>>)

\* getSystemInstruction
getSystemInstruction(subject) ==
    LET baseInstruction == <<"You are a helpful, expert tutor specializing in", subject, ".">>
    IN  IF subject = "MATH" \/ subject = "PHYSICS" \/ subject = "CHEMISTRY"
        THEN baseInstruction \o
             <<"- CRITICAL: You MUST use LaTeX formatting for all mathematical equations, formulas, and symbols.",
               "- Wrap block equations in double dollar signs:", "$$", "...", "$$",
               "- Wrap inline equations in single dollar signs:", "$", "...", "$",
               "- Explain concepts step-by-step.",
               "- If the user makes a mistake, gently correct them.">>
        ELSE IF subject = "CODING"
             THEN baseInstruction \o
                  <<"Provide clean, well-commented code snippets. Explain the logic behind the code.">>
             ELSE baseInstruction \o <<"Be concise and clear.">>

\* msg.role === Role.USER ? "user" : "assistant"
GroqRole(msg) == IF msg.role = "USER" THEN "user" ELSE "assistant"

\* msg.role === Role.USER ? 'user' : 'model'
GeminiRole(msg) == IF msg.role = "USER" THEN "user" ELSE "model"

\* useAI (attachment variant): const messages = [system, ...previousMessages.map(...), user]
AIA_GroqMessages(systemInstruction, previousMessages, finalPrompt) ==
    <<[role |-> "system", content |-> systemInstruction]>>
        \o [i \in DOMAIN previousMessages |->
              [role |-> GroqRole(previousMessages[i]),
               content |-> previousMessages[i].content \o
                           (IF previousMessages[i].att = "text"
                            THEN <<"[File]:">> \o previousMessages[i].attContent
                            ELSE <<>>)]]
        \o <<[role |-> "user", content |-> finalPrompt]>>

\* Variant: the first turn is left out of the fallback's history.
AIA_GeminiHistory_SkipsFirst(previousMessages) ==
    [i \in 1..(Len(previousMessages) - 1) |->
        [role |-> GeminiRole(previousMessages[i + 1]),
         text |-> previousMessages[i + 1].content]]

\* useAI (attachment variant): const geminiHistory = previousMessages.map(...)
AIA_GeminiHistory(previousMessages) ==
    [i \in DOMAIN previousMessages |->
        [role |-> GeminiRole(previousMessages[i]), text |-> previousMessages[i].content]]

\* useAI (text-only variant): messages
AIT_GroqMessages(systemInstruction, previousMessages, text) ==
    <<[role |-> "system", content |-> systemInstruction]>>
        \o [i \in DOMAIN previousMessages |->
              [role |-> GroqRole(previousMessages[i]), content |-> previousMessages[i].content]]
        \o <<[role |-> "user", content |-> text]>>

\* useAI (text-only variant): geminiHistory
AIT_GeminiHistory(previousMessages) ==
    [i \in DOMAIN previousMessages |->
        [role |-> GeminiRole(previousMessages[i]), text |-> previousMessages[i].content]]

\* useGemini: history
GR_History(previousMessages) ==
    [i \in DOMAIN previousMessages |->
        [role |-> GeminiRole(previousMessages[i]), text |-> previousMessages[i].content]]

\* useGemini (second variant): history
GP_History(previousMessages) ==
    [i \in DOMAIN previousMessages |->
        [role |-> GeminiRole(previousMessages[i]), text |-> previousMessages[i].content]]

\* useGemini (second variant): modelId
GP_ModelId(subject) ==
    IF subject = "MATH" \/ subject = "PHYSICS" \/ subject = "CODING"
    THEN "gemini-3-pro-preview"
    ELSE "gemini-3-flash-preview"

\* generateTutorResponse: modelId
GTR_ModelId(subject) ==
    IF subject = "MATH" \/ subject = "PHYSICS" \/ subject = "CODING"
    THEN "gemini-3-pro-preview"
    ELSE "gemini-3-flash-preview"

Built(impl, system, groqModel, geminiModel, groqMessages, geminiHistory) ==
    [impl |-> impl, system |-> system, groqModel |-> groqModel, geminiModel |-> geminiModel,
     groqMessages |-> groqMessages, geminiHistory |-> geminiHistory]

MainVars == <<hook, env, req, isLoading, error, statusMessage, pc, attempt,
              trace, outcome, ncalls, sent, prev>>

BuildersInit ==
    /\ hook = "useAI_attachment"
    /\ env = [groq |-> TRUE, gemini |-> TRUE, apiKey |-> TRUE]
    /\ req = [att |-> "none", text |-> <<>>, content |-> <<>>]
    /\ isLoading = FALSE
    /\ error = None
    /\ statusMessage = None
    /\ pc = "idle"
    /\ attempt = 0
    /\ trace = <<>>
    /\ outcome = NoOutcome
    /\ ncalls = 0
    /\ sent = <<>>
    /\ prev = NoPrev
    /\ pin \in BuilderInputs
    /\ pout = NoOutput
    /\ inv = Absent
    /\ store = Absent
    /\ voice = Absent

\* useAI.sendMessage (attachment variant) prepares its requests
Build_AIA ==
    /\ pout = NoOutput
    /\ pout' = Built("useAI_attachment", AIA_SystemInstruction(pin.subject),
                     "llama-3.3-70b-versatile", "gemini-1.5-flash",
                     AIA_GroqMessages(AIA_SystemInstruction(pin.subject), pin.history,
                                      AIA_GroqPrompt(pin)),
                     AIA_GeminiHistory(pin.history))
    /\ UNCHANGED <<MainVars, pin, SideVars>>

\* useAI.sendMessage (text-only variant) prepares its requests
Build_AIT ==
    /\ pout = NoOutput
    /\ pout' = Built("useAI_text", AIT_SystemInstruction(pin.subject),
                     "llama-3.3-70b-versatile", "gemini-2.0-flash",
                     AIT_GroqMessages(AIT_SystemInstruction(pin.subject), pin.history, pin.text),
                     AIT_GeminiHistory(pin.history))
    /\ UNCHANGED <<MainVars, pin, SideVars>>

\* useGemini.sendMessage prepares its request
Build_GR ==
    /\ pout = NoOutput
    /\ pout' = Built("useGemini_retry", GR_SystemInstruction(pin.subject),
                     "", "gemini-2.0-flash", <<>>, GR_History(pin.history))
    /\ UNCHANGED <<MainVars, pin, SideVars>>

\* useGemini.sendMessage (second variant) prepares its request
Build_GP ==
    /\ pout = NoOutput
    /\ pout' = Built("useGemini_plain", GP_SystemInstruction(pin.subject),
                     "", GP_ModelId(pin.subject), <<>>, GP_History(pin.history))
    /\ UNCHANGED <<MainVars, pin, SideVars>>

\* generateTutorResponse prepares its request (the history is passed through)
Build_GTR ==
    /\ pout = NoOutput
    /\ pout' = Built("generateTutorResponse", getSystemInstruction(pin.subject),
                     "", GTR_ModelId(pin.subject), <<>>, <<>>)
    /\ UNCHANGED <<MainVars, pin, SideVars>>

BuildersNext == Build_AIA \/ Build_AIT \/ Build_GR \/ Build_GP \/ Build_GTR

SpecBuilders == BuildersInit /\ [][BuildersNext]_vars

-----------------------------------------------------------------------------
(* Reading the record of the current invocation *)

Done == pc = "done"
IsUseAI == hook \in {"useAI_attachment", "useAI_text"}
HasRetryLoop == hook \in {"useAI_attachment", "useAI_text", "useGemini_retry"}

Events(kind, who) == {i \in DOMAIN trace : trace[i].ev = kind /\ trace[i].who = who}
Waits == {i \in DOMAIN trace : trace[i].ev = "wait"}
Statuses == {i \in DOMAIN trace : trace[i].ev = "status"}

\* rate-limit class as the claims word it: a 429 status or '429' in the message
RateLimited(e) == e.status = 429 \/ \E k \in DOMAIN e.message : e.message[k] = "429"

Returned(text) == [kind |-> "return", text |-> text, err |-> NoError]
Thrown(e) == [kind |-> "throw", text |-> "", err |-> e]

\* the Groq hop failed: key missing, provider error, or empty completion
GroqHopFailed ==
    \/ ~env.groq
    \/ \E i \in Events("result", "groq") : ~trace[i].ok \/ trace[i].text = ""

\* the last thing the invocation did was to receive a text from chat.sendMessage
FallbackSucceeded ==
    /\ trace # <<>>
    /\ trace[Len(trace)].ev = "result"
    /\ trace[Len(trace)].who = "chat"
    /\ trace[Len(trace)].ok

-----------------------------------------------------------------------------
\* C1: in useAI, for a request without image, when the Groq hop has failed
\* (whatever the error) and the Gemini fallback has answered, sendMessage
\* returns exactly the text the fallback produced and raises nothing.
C1_FallbackTextReturned ==
    (Done /\ IsUseAI /\ req.att # "image" /\ GroqHopFailed /\ FallbackSucceeded)
        => outcome = Returned(trace[Len(trace)].text)

C1_Witness ==
    /\ Done /\ IsUseAI /\ req.att = "text" /\ FallbackSucceeded
    /\ \E i \in Events("result", "groq") : ~trace[i].ok
    /\ outcome = Returned("text B")

\* C2 (as claimed): once an invocation has completed, on every route and in
\* every implementation, isLoading is false and statusMessage is null.
C2_BusyAndStatusCleared == Done => (isLoading = FALSE /\ statusMessage = None)

\* C3: for a request with an image attachment only the vision call is ever
\* made, at most once; the text providers (Groq, the Gemini chat fallback) are
\* never called, and a failed vision call ends the invocation by raising that
\* very error.
C3_ImageOnlyVision ==
    (hook = "useAI_attachment" /\ req.att = "image" /\ pc # "idle") =>
        /\ \A i \in DOMAIN trace :
              trace[i].ev \in {"call", "result"} => trace[i].who = "vision"
        /\ Cardinality(Events("call", "vision")) <= 1
        /\ Waits = {}
        /\ \A i \in Events("result", "vision") :
              ~trace[i].ok => (Done /\ outcome = Thrown(trace[i].err))

C3_Witness ==
    /\ hook = "useAI_attachment" /\ req.att = "image" /\ Done
    /\ \E i \in Events("result", "vision") : ~trace[i].ok /\ RateLimited(trace[i].err)
    /\ outcome.kind = "throw"

\* every hop that ran has failed, and the invocation is over
AllHopsFailed ==
    /\ Done
    /\ \E i \in DOMAIN trace : trace[i].ev = "result"
    /\ trace[Len(trace)].ev = "result"
    /\ \A i \in DOMAIN trace :
          trace[i].ev = "result" =>
              \/ ~trace[i].ok
              \/ trace[i].who = "groq" /\ trace[i].text = ""

\* C4 (as claimed): when every hop has failed, sendMessage raises the last
\* hop's error, error holds a non-empty text (that error's message when it has
\* one), and isLoading is false.
C4_LastErrorRaisedBusyFalse ==
    AllHopsFailed =>
        /\ outcome = Thrown(trace[Len(trace)].err)
        /\ error # None
        /\ error[1] # <<>>
        /\ (outcome.err.message # <<>> => error[1] = outcome.err.message)
        /\ isLoading = FALSE

\* the results chat.sendMessage gave in this invocation, and whether all of
\* them were rate-limit failures
ChatResults == Events("result", "chat")
AlwaysRateLimited ==
    /\ ChatResults # {}
    /\ \A i \in ChatResults : ~trace[i].ok /\ RateLimited(trace[i].err)

\* C5: with maxRetries = 1, a retry loop whose provider answers every attempt
\* with a rate-limit error never makes a third attempt nor a second wait, and
\* ends having made exactly 2 attempts and exactly 1 wait, by raising.
C5_ExactlyTwoAttempts ==
    (HasRetryLoop /\ AlwaysRateLimited) =>
        /\ Cardinality(Events("call", "chat")) <= 2
        /\ Cardinality(Waits) <= 1
        /\ Done => /\ Cardinality(Events("call", "chat")) = 2
                   /\ Cardinality(Waits) = 1
                   /\ outcome.kind = "throw"

C5_Witness ==
    /\ HasRetryLoop /\ AlwaysRateLimited /\ Done
    /\ Cardinality(ChatResults) = 2
    /\ outcome.kind = "throw"

MaxRetriesMessages == {MaxRetriesExceeded, MaxRetriesExceededOnFallback}

\* the retry budget is spent: maxRetries + 1 attempts, all rate-limited
BudgetExhausted ==
    HasRetryLoop /\ Done /\ AlwaysRateLimited /\ Cardinality(ChatResults) = maxRetries + 1

\* C6 (as claimed): once rate-limit failures have used up the retry budget,
\* the loop raises the distinct "max retries exceeded" error.
C6_DistinctExhaustionError ==
    BudgetExhausted =>
        /\ outcome.kind = "throw"
        /\ outcome.err.message \in MaxRetriesMessages

\* C6 (amended): once rate-limit failures have used up the retry budget, the
\* loop re-raises the provider's last rate-limit error itself; no invocation
\* ever ends with a "max retries exceeded" error.
C6_LastRateLimitErrorRethrown ==
    /\ BudgetExhausted => outcome = Thrown(trace[Len(trace)].err)
    /\ outcome.err.message \notin MaxRetriesMessages

C6_Witness ==
    /\ BudgetExhausted
    /\ outcome = Thrown([message |-> <<"Error", "429", "quota">>, status |-> 0])

\* the retry loop of the current invocation: the record from the first
\* chat.sendMessage call on
FirstChatCall ==
    CHOOSE i \in Events("call", "chat") : \A j \in Events("call", "chat") : i <= j
LoopTrace == SubSeq(trace, FirstChatCall, Len(trace))
LoopKinds == [i \in DOMAIN LoopTrace |-> LoopTrace[i].ev]

\* the provider failed with a rate-limit error exactly once and then answered
FailedOnceThenSucceeded ==
    /\ HasRetryLoop /\ Done
    /\ Cardinality(ChatResults) = 2
    /\ \E i, j \in ChatResults :
          /\ i < j
          /\ ~trace[i].ok /\ RateLimited(trace[i].err)
          /\ trace[j].ok

\* C7 (as claimed): every retry loop that sees one rate-limit failure and then
\* a success returns the text after one wait and one retry, having emitted two
\* status notifications: one before the wait, one before the retry attempt.
C7_TwoStatusesEveryLoop ==
    FailedOnceThenSucceeded =>
        /\ outcome = Returned(trace[Len(trace)].text)
        /\ LoopKinds = <<"call", "result", "status", "wait", "status", "call", "result">>

\* C7 (amended): such a loop returns the text after exactly one wait and one
\* retry; useGemini emits two status notifications (one before the wait, one
\* before the retry attempt), each useAI fallback loop emits one only, before
\* the wait, and nothing between the wait and the retry attempt.
C7_StatusesPerLoop ==
    FailedOnceThenSucceeded =>
        /\ outcome = Returned(trace[Len(trace)].text)
        /\ hook = "useGemini_retry" =>
              /\ LoopKinds = <<"call", "result", "status", "wait", "status", "call", "result">>
              /\ LoopTrace[3].who = ServerIsBusy
              /\ LoopTrace[5].who = RetryingNow
        /\ IsUseAI =>
              /\ LoopKinds = <<"call", "result", "status", "wait", "call", "result">>
              /\ LoopTrace[3].who = ServerBusyBackup

C7_Witness ==
    /\ FailedOnceThenSucceeded
    /\ hook = "useGemini_retry"
    /\ Cardinality(Statuses) = 2
    /\ outcome = Returned("text A")

C7_WitnessUseAI ==
    /\ FailedOnceThenSucceeded
    /\ hook = "useAI_text"
    /\ outcome = Returned("text A")

\* C8: in a retry loop a failure that is not rate-limit-class is the last
\* thing the invocation does with the provider: no wait and no further attempt
\* follow, the error is raised as it is, and if it came on the first attempt
\* the loop has made exactly one attempt.
C8_OtherFailureNotRetried ==
    HasRetryLoop =>
        \A i \in ChatResults :
            (~trace[i].ok /\ ~RateLimited(trace[i].err)) =>
                /\ i = Len(trace)
                /\ Done
                /\ outcome = Thrown(trace[i].err)
                /\ (Waits = {} => Cardinality(Events("call", "chat")) = 1)

C8_Witness ==
    /\ HasRetryLoop /\ Done /\ Waits = {}
    /\ \E i \in ChatResults :
          ~trace[i].ok /\ trace[i].err = [message |-> <<"Network", "error">>, status |-> 503]

\* the credentials the chain selected for the request would use
ChainKeys ==
    CASE hook = "useAI_attachment" /\ req.att = "image" -> {"gemini"}
      [] hook = "useAI_attachment" /\ req.att # "image" -> {"groq", "gemini"}
      [] hook = "useAI_text" -> {"groq", "gemini"}
      [] hook = "useGemini_retry" -> {"gemini"}
      [] hook = "useGemini_plain" -> {"apiKey"}

ConfigurationMessages ==
    {GroqKeyMissing, GeminiKeyMissing, GeminiKeyNotConfiguredVite, GeminiKeyNotConfigured}

\* C9 (as claimed): when a credential of the selected chain is missing, the
\* invocation makes no provider call at all and ends by raising a
\* configuration error.
C9_MissingKeyFailsFast ==
    (pc # "idle" /\ \E k \in ChainKeys : ~env[k]) =>
        /\ \A i \in DOMAIN trace : trace[i].ev # "call"
        /\ Done
        /\ outcome.kind = "throw"
        /\ outcome.err.message \in ConfigurationMessages

GroqCalls == Events("call", "groq")

\* C10 (as claimed): after a rate-limit failure of Groq the fallback is called
\* only once Groq has been tried maxRetries + 1 times.
C10_PrimaryRetried ==
    \A j \in Events("call", "chat") :
        (\E i \in Events("result", "groq") :
            i < j /\ ~trace[i].ok /\ RateLimited(trace[i].err))
        => Cardinality(GroqCalls) = maxRetries + 1

\* C10 (amended): the Groq hop is not retried.  Groq is called at most once
\* per invocation; when it fails, rate-limit errors included, the next thing
\* the invocation does is to announce the switch and (the Gemini key being
\* present) to call the fallback, without any wait in between.
C10_PrimaryNotRetried ==
    IsUseAI =>
        /\ Cardinality(GroqCalls) <= 1
        /\ \A i \in Events("result", "groq") :
              (~trace[i].ok /\ RateLimited(trace[i].err)) =>
                  /\ Len(trace) > i
                  /\ trace[i + 1] = EvStatus(TrafficHigh)
                  /\ env.gemini => (Len(trace) > i + 1 /\ trace[i + 2] = EvCall("chat"))
                  /\ ~env.gemini => (Done /\ outcome = Thrown(NewError(GeminiKeyMissing)))

C10_Witness ==
    /\ IsUseAI /\ Done
    /\ \E i \in Events("result", "groq") : ~trace[i].ok /\ trace[i].err.status = 429
    /\ Events("call", "chat") # {}

-----------------------------------------------------------------------------
\* a hop produced a usable text: the call settled with a text, which for Groq
\* must be non-empty (if (!response) throw ...)
HopSucceeded(e) == e.ev = "result" /\ e.ok /\ (e.who = "groq" => e.text # "")
NonEmptyResults == {i \in DOMAIN trace : trace[i].ev = "result" /\ trace[i].ok /\ trace[i].text # ""}

\* C11 (as claimed): whenever sendMessage returns, the text is non-empty and
\* is the first non-empty text a provider of the chain produced.
C11_ReturnedTextNonEmpty ==
    (Done /\ outcome.kind = "return") =>
        /\ outcome.text # ""
        /\ \E i \in NonEmptyResults :
              /\ \A j \in NonEmptyResults : i <= j
              /\ outcome.text = trace[i].text

Calls == {i \in DOMAIN trace : trace[i].ev = "call"}
InFlight == {i \in Calls : i = Len(trace)}
LastBefore(i, kind) ==
    CHOOSE j \in 1..(i - 1) :
        /\ trace[j].ev = kind
        /\ \A k \in (j + 1)..(i - 1) : trace[k].ev # kind

\* C12: provider calls of one invocation never overlap.  Each call settles
\* before the invocation does anything else; a call is issued only while no
\* earlier hop has produced a text; the fallback is called only after the Groq
\* call (if one was made) has failed; a retry is issued only after the previous
\* attempt has failed and the backoff wait that followed it has elapsed.
C12_OneCallInFlight ==
    /\ Cardinality(InFlight) <= 1
    /\ (pc \in {"groq", "vision", "chat"}) =
          (InFlight # {} /\ trace[Len(trace)].who = pc)
    /\ pc = "backoff" => trace[Len(trace)].ev = "wait"
    /\ \A i \in Calls :
          /\ i < Len(trace) =>
                (trace[i + 1].ev = "result" /\ trace[i + 1].who = trace[i].who)
          /\ \A j \in 1..(i - 1) : ~HopSucceeded(trace[j])
          /\ (trace[i].who = "chat" /\ Events("call", "groq") # {}) =>
                \E j \in Events("result", "groq") : j < i
          /\ (\E j \in 1..(i - 1) : trace[j].ev = "call" /\ trace[j].who = trace[i].who) =>
                /\ \E w \in Waits : w < i
                /\ LastBefore(i, "result") < LastBefore(i, "wait")
                /\ ~trace[LastBefore(i, "result")].ok
                /\ \A k \in (LastBefore(i, "wait") + 1)..(i - 1) : trace[k].ev = "status"

C12_Witness ==
    /\ Done /\ IsUseAI
    /\ Cardinality(Events("call", "groq")) = 1
    /\ Cardinality(Events("call", "chat")) = 2
    /\ Cardinality(Waits) = 1
    /\ outcome.kind = "return"

\* C13: error is set on terminal failure only.  An invocation that returns a
\* text ends with error = null, whatever failed on the way; an invocation that
\* raises ends with error set.
C13_ErrorOnlyOnTerminalFailure ==
    Done =>
        /\ outcome.kind = "return" => error = None
        /\ outcome.kind = "throw" => error # None
        /\ outcome.kind \in {"return", "throw"}

C13_Witness ==
    /\ Done /\ outcome.kind = "return" /\ error = None
    /\ \E i \in Events("result", "groq") : ~trace[i].ok
    /\ \E i \in Events("result", "chat") : ~trace[i].ok

\* C14: a later invocation on the same hook shows nothing of the one before.
\* While it is in flight error is null; an error shown is the one it raised
\* itself and a status shown is one it set itself, whatever the hook showed
\* when it started.
C14_NoLeakIntoNextCall ==
    (ncalls >= 2) =>
        /\ pc \in {"groq", "vision", "chat", "backoff"} => error = None
        /\ error # None =>
              /\ Done /\ outcome.kind = "throw"
              /\ outcome.err.message # <<>> => error = Some(outcome.err.message)
        /\ statusMessage # None =>
              \E i \in Statuses : statusMessage = Some(trace[i].who)

C14_Witness ==
    /\ ncalls = 2
    /\ prev.kind = "throw" /\ prev.error # None /\ prev.statusMessage # None
    /\ pc = "groq"
    /\ error = None /\ statusMessage = None

\* C18: as long as the invocation is in flight (a provider call pending or the
\* backoff wait running) the busy flag is true.
C18_BusyWhileInFlight ==
    pc \in {"groq", "vision", "chat", "backoff"} => isLoading = TRUE

C18_Witness ==
    /\ pc = "backoff" /\ isLoading = TRUE
    /\ ncalls = 2 /\ hook = "useAI_text"

IsPrefix(p, q) == Len(p) <= Len(q) /\ SubSeq(q, 1, Len(p)) = p
IsSuffix(p, q) == Len(p) <= Len(q) /\ SubSeq(q, Len(q) - Len(p) + 1, Len(q)) = p

\* C20: a request with a text attachment never takes the vision route, and
\* every prompt it hands to a provider (Groq, the Gemini fallback and its
\* retry) is the user's text followed by the content of the attachment.
C20_TextAttachmentInlined ==
    (hook = "useAI_attachment" /\ req.att = "text" /\ pc # "idle") =>
        /\ \A i \in DOMAIN trace : trace[i].who # "vision"
        /\ Len(sent) = Cardinality(Calls)
        /\ \A k \in DOMAIN sent :
              /\ sent[k].who \in {"groq", "chat"}
              /\ IsPrefix(req.text, sent[k].prompt)
              /\ IsSuffix(req.content, sent[k].prompt)
              /\ Len(sent[k].prompt) >= Len(req.text) + Len(req.content)

C20_Witness ==
    /\ hook = "useAI_attachment" /\ req.att = "text" /\ Done
    /\ Len(sent) = 3
    /\ sent[1].who = "groq" /\ sent[2].who = "chat" /\ sent[3].who = "chat"
    /\ sent[3].prompt = <<"solve", "x", "File Content:", "def", "f">>

-----------------------------------------------------------------------------
(* Claims about the request builders, checked under SpecBuilders *)

HasBuilt == pout.impl # "none"
HasHistoryAdapter ==
    HasBuilt /\ pout.impl \in {"useAI_attachment", "useAI_text", "useGemini_retry", "useGemini_plain"}
HasGroqAdapter == HasBuilt /\ pout.impl \in {"useAI_attachment", "useAI_text"}
Range(f) == {f[i] : i \in DOMAIN f}
QuantitativeSubjects == {"MATH", "PHYSICS", "CHEMISTRY"}

\* C15: the history adapters are total and keep length and order.  For a
\* history of N messages the Gemini history has N turns and the Groq messages
\* have N history turns (between the system message and the current prompt);
\* turn i carries the content of message i and has role 'user' iff message i
\* is of role USER, else 'model' (Gemini) or 'assistant' (Groq).
C15_HistoryOrderPreserved ==
    /\ HasHistoryAdapter =>
          /\ Len(pout.geminiHistory) = Len(pin.history)
          /\ \A i \in DOMAIN pin.history :
                /\ pout.geminiHistory[i].role =
                      (IF pin.history[i].role = "USER" THEN "user" ELSE "model")
                /\ IsPrefix(pin.history[i].content, pout.geminiHistory[i].text)
    /\ HasGroqAdapter =>
          /\ Len(pout.groqMessages) = Len(pin.history) + 2
          /\ pout.groqMessages[1].role = "system"
          /\ pout.groqMessages[Len(pout.groqMessages)].role = "user"
          /\ \A i \in DOMAIN pin.history :
                /\ pout.groqMessages[i + 1].role =
                      (IF pin.history[i].role = "USER" THEN "user" ELSE "assistant")
                /\ IsPrefix(pin.history[i].content, pout.groqMessages[i + 1].content)

C15_Witness ==
    /\ pout.impl = "useAI_attachment"
    /\ Len(pin.history) = 2
    /\ pin.history[1].role = "ASSISTANT" /\ pin.history[2].role = "USER"
    /\ pin.history[1].content # pin.history[2].content
    /\ Len(pout.geminiHistory) = 2 /\ Len(pout.groqMessages) = 4

\* the textual content of a turn is the message content, a marker, and the
\* content of the attachment
Inlined(msg, turnText) ==
    /\ IsPrefix(msg.content, turnText)
    /\ IsSuffix(msg.attContent, turnText)
    /\ Len(turnText) > Len(msg.content) + Len(msg.attContent)

\* C16 (as claimed): in useAI a history message with a TEXT attachment yields,
\* for Groq and for the Gemini fallback alike, a turn whose text is the
\* message content, a marker and the attachment content.
C16_TextAttachmentInHistory ==
    pout.impl = "useAI_attachment" =>
        \A i \in DOMAIN pin.history :
            pin.history[i].att = "text" =>
                /\ Inlined(pin.history[i], pout.groqMessages[i + 1].content)
                /\ Inlined(pin.history[i], pout.geminiHistory[i].text)

\* C17: every system instruction is non-empty and names the subject; for
\* MATH, PHYSICS and CHEMISTRY it holds the block delimiter $$ and the inline
\* delimiter $, for every other subject it holds neither.
C17_SystemInstruction ==
    HasBuilt =>
        /\ pout.system # <<>>
        /\ pin.subject \in Range(pout.system)
        /\ pin.subject \in QuantitativeSubjects =>
              ("$$" \in Range(pout.system) /\ "$" \in Range(pout.system) /\ "$$" # "$")
        /\ pin.subject \notin QuantitativeSubjects =>
              /\ "$$" \notin Range(pout.system)
              /\ "$" \notin Range(pout.system)
              /\ MathDirective[1] \notin Range(pout.system)

C17_Witness ==
    /\ pout.impl = "useAI_attachment"
    /\ pin.subject = "CHEMISTRY"
    /\ "$$" \in Range(pout.system)

\* C19 (as claimed): where the model depends on the subject, MATH, PHYSICS,
\* CHEMISTRY and CODING select the stronger model and every other subject the
\* lighter one.
C19_StrongerModelForQuantitative ==
    (HasBuilt /\ pout.impl \in {"useGemini_plain", "generateTutorResponse"}) =>
        pout.geminiModel =
            (IF pin.subject \in QuantitativeSubjects \cup {"CODING"}
             THEN "gemini-3-pro-preview"
             ELSE "gemini-3-flash-preview")

-----------------------------------------------------------------------------
BackupStatuses == Events("status", TrafficHigh)
RetryStatuses == Events("status", ServerBusyBackup) \cup Events("status", ServerIsBusy)
ChatCalls == Events("call", "chat")

\* C21: in a useAI invocation the "switching to backup" status has been
\* emitted if and only if the Groq hop of a request without image has failed;
\* it is emitted once, before every call to the fallback provider, and never
\* together with a vision call.  In every retry loop a "retrying" status
\* directly follows a rate-limit failure of chat.sendMessage, and every retry
\* attempt is preceded by such a status with no other attempt in between.
C21_StatusOrdering ==
    /\ (IsUseAI /\ pc # "idle") =>
          /\ (BackupStatuses # {}) <=> (req.att # "image" /\ GroqHopFailed)
          /\ Cardinality(BackupStatuses) <= 1
          /\ \A i \in BackupStatuses : \A j \in ChatCalls : i < j
          /\ BackupStatuses # {} => Events("call", "vision") = {}
          /\ ChatCalls # {} => BackupStatuses # {}
    /\ \A i \in RetryStatuses :
          /\ i > 1
          /\ trace[i - 1].ev = "result" /\ trace[i - 1].who = "chat"
          /\ ~trace[i - 1].ok /\ RateLimited(trace[i - 1].err)
          /\ \E j \in ChatCalls : j < i
    /\ \A j \in ChatCalls :
          (\E k \in ChatCalls : k < j) =>
              \E i \in RetryStatuses :
                  /\ i < j
                  /\ \A k \in ChatCalls : ~(i < k /\ k < j)
    /\ \A i \in Events("status", RetryingNow) :
          /\ i > 2
          /\ trace[i - 1].ev = "wait"
          /\ (i - 2) \in RetryStatuses

\* a useAI invocation that switched to the backup, was rate limited there,
\* announced the retry and made it
C21_Witness ==
    /\ IsUseAI /\ Done
    /\ BackupStatuses # {}
    /\ \E i \in RetryStatuses : \E j \in ChatCalls : i < j

-----------------------------------------------------------------------------
Suspended == pc \in {"groq", "vision", "chat", "backoff"}
NumCalls(who) == Cardinality(Events("call", who))

\* the provider calls each route may make
CallBudget ==
    CASE hook = "useAI_attachment" /\ req.att = "image" -> [vision |-> 1, groq |-> 0, chat |-> 0]
      [] hook = "useAI_attachment" /\ req.att # "image" -> [vision |-> 0, groq |-> 1, chat |-> 2]
      [] hook = "useAI_text" -> [vision |-> 0, groq |-> 1, chat |-> 2]
      [] hook = "useGemini_retry" -> [vision |-> 0, groq |-> 0, chat |-> 2]
      [] hook = "useGemini_plain" -> [vision |-> 0, groq |-> 0, chat |-> 1]

\* C23: every sendMessage invocation terminates when its provider calls and
\* backoff waits complete: a suspended invocation is waiting for exactly such
\* a completion, every completion makes the invocation either finish or record
\* one more event, and the record is bounded.  The provider calls it makes are
\* bounded: at most 1 vision call for an image request, at most 1 Groq call
\* and 2 Gemini calls for a text request in useAI, at most 2 Gemini calls in
\* the retrying useGemini.
C23_TerminatesWithBoundedCalls ==
    /\ [](/\ pc \in {"idle", "done"} \/ Suspended
          /\ Suspended =>
                ENABLED (GroqResponds \/ VisionResponds \/ ChatResponds \/ BackoffElapsed)
          /\ pc # "idle" =>
                /\ NumCalls("vision") <= CallBudget.vision
                /\ NumCalls("groq") <= CallBudget.groq
                /\ NumCalls("chat") <= CallBudget.chat
                /\ Cardinality(Waits) <= maxRetries
          /\ Len(trace) <= 4 * (maxRetries + 1) + 1)
    /\ [][Suspended => (pc' = "done" \/ Len(trace') > Len(trace))]_vars

\* a text request of useAI that used its whole budget: one Groq call and two
\* Gemini calls, and then ended
C23_Witness ==
    /\ IsUseAI /\ Done
    /\ NumCalls("groq") = 1
    /\ NumCalls("chat") = 2

-----------------------------------------------------------------------------
(* Two invocations of sendMessage overlapping on one hook instance.  The    *)
(* hook's useState cells (isLoading, error, statusMessage) are the ones     *)
(* both invocations write; inv[k] holds what is local to invocation k (its  *)
(* arguments, its attempt counter, where it is suspended).                  *)

Invocations == 1..2

OverlapResults ==
    {[ok |-> TRUE, text |-> "text A", err |-> NoError],
     [ok |-> FALSE, text |-> "", err |-> NewError(<<"Error", "429", "quota">>)],
     [ok |-> FALSE, text |-> "", err |-> [message |-> <<"Network", "error">>, status |-> 503]]}

OverlapRequests(h) == {r \in Requests(h) : r.text = <<"explain">>}

NotStarted ==
    [pc |-> "idle", attempt |-> 0, trace |-> <<>>, outcome |-> NoOutcome,
     req |-> [att |-> "none", text |-> <<>>, content |-> <<>>], sent |-> <<>>]

\* the hook's state together with the locals of invocation k
OvCur(k) ==
    [isLoading |-> isLoading, error |-> error, statusMessage |-> statusMessage,
     pc |-> inv[k].pc, attempt |-> inv[k].attempt, trace |-> inv[k].trace,
     outcome |-> inv[k].outcome, req |-> inv[k].req, sent |-> inv[k].sent]

OvCommit(k, s) ==
    /\ isLoading' = s.isLoading
    /\ error' = s.error
    /\ statusMessage' = s.statusMessage
    /\ inv' = [inv EXCEPT ![k] = [pc |-> s.pc, attempt |-> s.attempt, trace |-> s.trace,
                                  outcome |-> s.outcome, req |-> s.req, sent |-> s.sent]]

OvFrozen == <<hook, env, req, pc, attempt, trace, outcome, ncalls, sent, prev,
              pin, pout, store, voice>>

OverlapInit ==
    /\ hook \in Hooks
    /\ env \in [groq : BOOLEAN, gemini : {TRUE}, apiKey : {TRUE}]
    /\ req = [att |-> "none", text |-> <<>>, content |-> <<>>]
    /\ isLoading = FALSE
    /\ error = None
    /\ statusMessage = None
    /\ pc = "idle"
    /\ attempt = 0
    /\ trace = <<>>
    /\ outcome = NoOutcome
    /\ ncalls = 0
    /\ sent = <<>>
    /\ prev = NoPrev
    /\ pin = NoInput
    /\ pout = NoOutput
    /\ inv = [k \in Invocations |-> NotStarted]
    /\ store = Absent
    /\ voice = Absent

OvSuspended(k) == inv[k].pc \in {"groq", "vision", "chat", "backoff"}

\* The caller invokes sendMessage; the second invocation starts while the
\* first is still in flight.
OvStart(k) ==
    /\ inv[k].pc = "idle"
    /\ k = 2 => OvSuspended(1)
    /\ k = 1 => inv[2].pc = "idle"
    /\ \E r \in OverlapRequests(hook) :
        OvCommit(k, CASE hook = "useAI_attachment" -> AIA_Start(OvCur(k), r)
                      [] hook = "useAI_text" -> AIT_Start(OvCur(k), r)
                      [] hook = "useGemini_retry" -> GR_Start(OvCur(k), r)
                      [] hook = "useGemini_plain" -> GP_Start(OvCur(k), r))
    /\ UNCHANGED OvFrozen

OvGroqResponds(k) ==
    /\ inv[k].pc = "groq"
    /\ \E res \in OverlapResults :
        OvCommit(k, CASE hook = "useAI_attachment" -> AIA_GroqDone(OvCur(k), res)
                      [] hook = "useAI_text" -> AIT_GroqDone(OvCur(k), res))
    /\ UNCHANGED OvFrozen

OvVisionResponds(k) ==
    /\ inv[k].pc = "vision"
    /\ \E res \in OverlapResults : OvCommit(k, AIA_VisionDone(OvCur(k), res))
    /\ UNCHANGED OvFrozen

OvChatResponds(k) ==
    /\ inv[k].pc = "chat"
    /\ \E res \in OverlapResults :
        OvCommit(k, CASE hook = "useAI_attachment" -> AIA_ChatDone(OvCur(k), res)
                      [] hook = "useAI_text" -> AIT_ChatDone(OvCur(k), res)
                      [] hook = "useGemini_retry" -> GR_ChatDone(OvCur(k), res)
                      [] hook = "useGemini_plain" -> GP_ChatDone(OvCur(k), res))
    /\ UNCHANGED OvFrozen

OvBackoffElapsed(k) ==
    /\ inv[k].pc = "backoff"
    /\ OvCommit(k, CASE hook = "useAI_attachment" -> AIA_BackoffDone(OvCur(k))
                     [] hook = "useAI_text" -> AIT_BackoffDone(OvCur(k))
                     [] hook = "useGemini_retry" -> GR_BackoffDone(OvCur(k)))
    /\ UNCHANGED OvFrozen

OverlapNext ==
    \E k \in Invocations :
        \/ OvStart(k)
        \/ OvGroqResponds(k)
        \/ OvVisionResponds(k)
        \/ OvChatResponds(k)
        \/ OvBackoffElapsed(k)

SpecOverlap == OverlapInit /\ [][OverlapNext]_vars

Flying == {k \in Invocations : OvSuspended(k)}
Completed == {k \in Invocations : inv[k].pc = "done"}
WroteStatus(k, m) ==
    \E i \in DOMAIN inv[k].trace : inv[k].trace[i] = EvStatus(m)

\* C22 (as claimed): while at least one of two overlapping invocations is in
\* flight the busy flag is true, no error of a completed invocation is
\* visible, and a visible status is one that an invocation still in flight
\* has written.
C22_OverlapIsolated ==
    Flying # {} =>
        /\ isLoading = TRUE
        /\ error = None
        /\ statusMessage # None => \E k \in Flying : WroteStatus(k, statusMessage[1])

-----------------------------------------------------------------------------
(* generateTutorResponse: src/hooks/useAI.ts 322-359.  A plain async        *)
(* function: it has no busy flag, error or status of its own.               *)

ApiKeyIsMissing == "Error: API_KEY is missing in environment variables."
CouldNotGenerate == "I couldn't generate a response."
SorryEncounteredError == "Sorry, I encountered an error while processing your request."

\* if (!process.env.API_KEY) return "Error: ..."; try { ... await chat.sendMessage
GTR_Start(s, r) ==
    LET s1 == [s EXCEPT !.attempt = 0, !.trace = <<>>, !.outcome = NoOutcome,
                        !.pc = "running", !.sent = <<>>, !.req = r]
    IN  IF ~env.apiKey
        THEN Return(s1, ApiKeyIsMissing)
        ELSE Send(s1, "chat", r.text)

\* Variant: the provider's text is returned as it is.
GTR_ChatDone_NoPlaceholder(s, res) ==
    LET s1 == [s EXCEPT !.trace = Append(@, EvResult("chat", res))]
    IN  IF res.ok THEN Return(s1, res.text) ELSE Return(s1, SorryEncounteredError)

\* return result.text || "I couldn't generate a response."; catch: return "Sorry, ..."
GTR_ChatDone(s, res) ==
    LET s1 == [s EXCEPT !.trace = Append(@, EvResult("chat", res))]
    IN  IF res.ok
        THEN Return(s1, IF res.text # "" THEN res.text ELSE CouldNotGenerate)
        ELSE Return(s1, SorryEncounteredError)

TutorFrozen == <<hook, env, isLoading, error, statusMessage, prev, pin, pout, SideVars>>

TutorInit ==
    /\ hook = "generateTutorResponse"
    /\ env \in [groq : BOOLEAN, gemini : BOOLEAN, apiKey : BOOLEAN]
    /\ req = [att |-> "none", text |-> <<>>, content |-> <<>>]
    /\ isLoading = FALSE
    /\ error = None
    /\ statusMessage = None
    /\ pc = "idle"
    /\ attempt = 0
    /\ trace = <<>>
    /\ outcome = NoOutcome
    /\ ncalls = 0
    /\ sent = <<>>
    /\ prev = NoPrev
    /\ pin \in {[NoInput EXCEPT !.subject = sub] : sub \in Subjects}
    /\ pout = NoOutput
    /\ inv = Absent
    /\ store = Absent
    /\ voice = Absent

\* the caller invokes generateTutorResponse(prompt, subject, history)
TutorStart ==
    /\ pc \in {"idle", "done"}
    /\ ncalls < MaxCalls
    /\ \E r \in Requests("generateTutorResponse") : Commit(GTR_Start(Cur, r))
    /\ ncalls' = ncalls + 1
    /\ UNCHANGED TutorFrozen

\* chat.sendMessage settles
TutorChatResponds ==
    /\ pc = "chat"
    /\ \E res \in Results : Commit(GTR_ChatDone(Cur, res))
    /\ UNCHANGED <<ncalls, TutorFrozen>>

TutorNext == TutorStart \/ TutorChatResponds

SpecTutor == TutorInit /\ [][TutorNext]_vars

\* C24: generateTutorResponse never raises and always returns a non-empty
\* string: the fixed error string, without any provider call, when the API key
\* is missing; the fixed apology when the provider call fails; the fixed
\* placeholder when the provider answers with the empty text; the provider's
\* text otherwise.  A failure is a normal return, told apart by content only.
C24_AlwaysReturnsNonEmptyString ==
    /\ pc \in {"idle", "chat", "done"}
    /\ (pc # "idle" /\ ~env.apiKey) => (Done /\ trace = <<>> /\ sent = <<>>)
    /\ (pc # "idle" /\ env.apiKey) => NumCalls("chat") = 1
    /\ Done =>
          /\ outcome.kind = "return"
          /\ outcome.err = NoError
          /\ outcome.text # ""
          /\ ~env.apiKey =>
                outcome.text = "Error: API_KEY is missing in environment variables."
          /\ env.apiKey =>
                /\ Len(trace) = 2
                /\ trace[2].ev = "result"
                /\ ~trace[2].ok =>
                      outcome.text = "Sorry, I encountered an error while processing your request."
                /\ (trace[2].ok /\ trace[2].text = "") =>
                      outcome.text = "I couldn't generate a response."
                /\ (trace[2].ok /\ trace[2].text # "") => outcome.text = trace[2].text

\* the provider answered with the empty text and the call has returned
C24_Witness ==
    /\ hook = "generateTutorResponse" /\ Done
    /\ Len(trace) = 2 /\ trace[2].ok /\ trace[2].text = ""

-----------------------------------------------------------------------------
(* The storage mock (src/unnamed/part_002) and useFirestore over it         *)
(* (src/unnamed/part_001).  store is                                        *)
(*   docs       localStorage: the list stored under each path               *)
(*   listeners  the 'firestore-update' handlers on window, in the order of  *)
(*              registration                                                 *)
(*   log        what was called and delivered, in order                     *)
(*   userId, subject, messages, loadingHistory   the hook's state and prop  *)
(*   adds, renders   how often addMessage was called, the prop changed      *)
(* Besides the hook one more component ("observer") may subscribe.          *)

StoreSubjects == {"MATH", "CODING"}

\* `users/${userId}/chats/${subject}/messages`
Path(uid, subject) == <<"users", uid, "chats", subject, "messages">>
Paths == {Path(u, s) : u \in {"null", "local-user"}, s \in StoreSubjects}

\* Math.floor(Date.now() / 1000) and Math.random(): the clock is the system's
\* and may be set back between two calls
Seconds == 0..MaxSeconds
Randoms == {"r1"}

StEvent(ev, who, path, docs) == [ev |-> ev, who |-> who, path |-> path, docs |-> docs]

\* { id: Date.now().toString(36) + Math.random()..., ...data, timestamp }
NewDoc(data, ts, rnd) ==
    [id |-> <<ts, rnd>>, role |-> data.role, content |-> data.content, seconds |-> ts]

\* Variant: the list is delivered as stored.
RECURSIVE SortBySeconds_Unsorted(_)
SortBySeconds_Unsorted(l) == l

\* raw.sort((a, b) => (a.timestamp?.seconds || 0) - (b.timestamp?.seconds || 0)):
\* Array.prototype.sort is stable
RECURSIVE SortBySeconds(_)
SortBySeconds(l) ==
    IF l = <<>>
    THEN <<>>
    ELSE LET h == Head(l)
             rest == SortBySeconds(Tail(l))
             Earlier(d) == d.seconds < h.seconds
             NotEarlier(d) == ~(d.seconds < h.seconds)
         IN  SelectSeq(rest, Earlier) \o <<h>> \o SelectSeq(rest, NotEarlier)

\* snapshot.docs.map(d => ({ id: d.id, ...d.data(), timestamp: ...toDate() }))
ToMessages(snap) ==
    [i \in DOMAIN snap |->
        [id |-> snap[i].id, role |-> snap[i].role, content |-> snap[i].content,
         timestamp |-> snap[i].seconds * 1000]]

\* load(): parse, sort, callback({ docs }); the hook's callback sets its state
Load(st, who, path) ==
    LET snap == SortBySeconds(st.docs[path])
        st1 == [st EXCEPT !.log = Append(@, StEvent("callback", who, path, snap))]
    IN  IF who = "useFirestore"
        THEN [st1 EXCEPT !.messages = ToMessages(snap), !.loadingHistory = FALSE]
        ELSE st1

\* window.dispatchEvent(...): const handler = e => { if (e.detail.path === path) load(); }
RECURSIVE Dispatch(_, _, _)
Dispatch(st, ls, path) ==
    IF ls = <<>>
    THEN st
    ELSE Dispatch(IF Head(ls).path = path THEN Load(st, Head(ls).who, Head(ls).path) ELSE st,
                  Tail(ls), path)

\* addDoc(ref, data): no await inside, so it runs to its end in one piece
AddDoc(st, path, data, ts, rnd) ==
    LET newDoc == NewDoc(data, ts, rnd)
        st1 == [st EXCEPT !.docs[path] = Append(@, newDoc),
                          !.log = Append(@, StEvent("addDoc", "addDoc", path, <<newDoc>>))]
    IN  Dispatch(st1, st1.listeners, path)

\* onSnapshot(ref, callback): load(); window.addEventListener(...)
OnSnapshot(st, who, path) ==
    LET st1 == [st EXCEPT !.log = Append(@, StEvent("onSnapshot", who, path, <<>>))]
    IN  [Load(st1, who, path) EXCEPT !.listeners = Append(@, [who |-> who, path |-> path])]

\* Variant: the returned function leaves the handler registered.
Unsubscribe_KeepsListener(st, who, path) ==
    [st EXCEPT !.log = Append(@, StEvent("unsubscribe", who, path, <<>>))]

\* () => window.removeEventListener('firestore-update', handler)
Unsubscribe(st, who, path) ==
    LET Others(l) == ~(l.who = who /\ l.path = path)
    IN  [st EXCEPT !.listeners = SelectSeq(@, Others),
                   !.log = Append(@, StEvent("unsubscribe", who, path, <<>>))]

\* `${userId}` of a string | null
UidString(uid) == IF uid = None THEN "null" ELSE uid[1]

\* Variant: addMessage without the test of userId.
FS_AddMessage_NoGuard(st, data, ts, rnd) ==
    LET st1 == [st EXCEPT !.adds = @ + 1,
                          !.log = Append(@, StEvent("addMessage", UidString(st.userId),
                                                    Path(UidString(st.userId), st.subject), <<>>))]
    IN  AddDoc(st1, Path(UidString(st.userId), st.subject), data, ts, rnd)

\* addMessage: if (!userId) return; await addDoc(messagesRef, { role, content, timestamp })
FS_AddMessage(st, data, ts, rnd) ==
    LET st1 == [st EXCEPT !.adds = @ + 1,
                          !.log = Append(@, StEvent("addMessage", UidString(st.userId),
                                                    Path(UidString(st.userId), st.subject), <<>>))]
    IN  IF st.userId = None
        THEN st1
        ELSE AddDoc(st1, Path(UidString(st.userId), st.subject), data, ts, rnd)

\* the effect on [userId, subject]: cleanup of the previous run, then
\* if (!userId) return; onSnapshot(...)
FS_ListenEffect(st, old) ==
    LET st1 == IF old.userId = None
               THEN st
               ELSE Unsubscribe(st, "useFirestore", Path(UidString(old.userId), old.subject))
    IN  IF st.userId = None
        THEN st1
        ELSE OnSnapshot(st1, "useFirestore", Path(UidString(st.userId), st.subject))

StoreFrozen == <<MainVars, pin, pout, inv, voice>>

StoreInit ==
    /\ hook = "useAI_attachment"
    /\ env = [groq |-> TRUE, gemini |-> TRUE, apiKey |-> TRUE]
    /\ req = [att |-> "none", text |-> <<>>, content |-> <<>>]
    /\ isLoading = FALSE
    /\ error = None
    /\ statusMessage = None
    /\ pc = "idle"
    /\ attempt = 0
    /\ trace = <<>>
    /\ outcome = NoOutcome
    /\ ncalls = 0
    /\ sent = <<>>
    /\ prev = NoPrev
    /\ pin = NoInput
    /\ pout = NoOutput
    /\ inv = Absent
    /\ voice = Absent
    /\ \E sub \in StoreSubjects :
          store = [docs |-> [p \in Paths |-> <<>>], listeners |-> <<>>, log |-> <<>>,
                   userId |-> None, subject |-> sub, messages |-> <<>>,
                   loadingHistory |-> TRUE, adds |-> 0, renders |-> 0]

\* ensureUser().then(user => setUserId(user.uid)), and the effect it triggers
EnsureUserResolved ==
    /\ store.userId = None
    /\ store' = FS_ListenEffect([store EXCEPT !.userId = Some("local-user")], store)
    /\ UNCHANGED StoreFrozen

\* the component is rendered with another subject
SubjectChanged ==
    /\ store.renders < MaxRenders
    /\ \E sub \in StoreSubjects \ {store.subject} :
          store' = FS_ListenEffect([store EXCEPT !.subject = sub, !.renders = @ + 1], store)
    /\ UNCHANGED StoreFrozen

\* the caller invokes addMessage(text, role); the n-th call brings the n-th text
AddMessageCalled ==
    /\ store.adds < MaxAdds
    /\ \E ts \in Seconds, rnd \in Randoms :
          store' = FS_AddMessage(store, [role |-> "USER", content |-> <<"text", store.adds + 1>>],
                                 ts, rnd)
    /\ UNCHANGED StoreFrozen

\* another component subscribes to a path, once
ObserverSubscribes ==
    /\ \A i \in DOMAIN store.log : store.log[i].who # "observer"
    /\ \E sub \in StoreSubjects : store' = OnSnapshot(store, "observer", Path("local-user", sub))
    /\ UNCHANGED StoreFrozen

\* and calls the function onSnapshot returned
ObserverUnsubscribes ==
    /\ \E i \in DOMAIN store.listeners :
          /\ store.listeners[i].who = "observer"
          /\ store' = Unsubscribe(store, "observer", store.listeners[i].path)
    /\ UNCHANGED StoreFrozen

StoreNext ==
    \/ EnsureUserResolved
    \/ SubjectChanged
    \/ AddMessageCalled
    \/ ObserverSubscribes
    \/ ObserverUnsubscribes

SpecStore == StoreInit /\ [][StoreNext]_vars

-----------------------------------------------------------------------------
(* Reading the log of the storage mock *)

LogEvents(ev) == {i \in DOMAIN store.log : store.log[i].ev = ev}

\* the documents the addDoc calls before position n returned for path p, in order
RECURSIVE AddedTo(_, _)
AddedTo(p, n) ==
    IF n = 0
    THEN <<>>
    ELSE IF store.log[n].ev = "addDoc" /\ store.log[n].path = p
         THEN AddedTo(p, n - 1) \o store.log[n].docs
         ELSE AddedTo(p, n - 1)

\* snap lists the documents of l ordered by timestamp, equal timestamps in
\* the order of l
InTimestampOrder(snap, l) ==
    /\ Len(snap) = Len(l)
    /\ \A i, j \in DOMAIN snap : i < j => snap[i].seconds <= snap[j].seconds
    /\ \A v \in {l[i].seconds : i \in DOMAIN l} \cup {snap[i].seconds : i \in DOMAIN snap} :
          SelectSeq(snap, LAMBDA d : d.seconds = v) = SelectSeq(l, LAMBDA d : d.seconds = v)

\* C25: after any sequence of addDoc calls the list stored under each path is
\* the list of the documents added to that path, in the order of the calls,
\* each once and none under another path; every snapshot delivered for a path
\* lists all documents added to it so far, in non-decreasing timestamp order,
\* documents of equal timestamp in insertion order.
C25_StoredExactlyAndSnapshotsSorted ==
    /\ \A p \in Paths : store.docs[p] = AddedTo(p, Len(store.log))
    /\ \A p, q \in Paths : \A i \in DOMAIN store.docs[p], j \in DOMAIN store.docs[q] :
          store.docs[p][i].content = store.docs[q][j].content => (p = q /\ i = j)
    /\ \A i \in LogEvents("callback") :
          InTimestampOrder(store.log[i].docs, AddedTo(store.log[i].path, i))

\* a snapshot of documents that were stored out of timestamp order
C25_Witness ==
    \E i \in LogEvents("callback") :
        LET snap == store.log[i].docs
        IN  /\ Len(snap) = MaxAdds
            /\ snap # AddedTo(store.log[i].path, i)
            /\ snap[1].seconds < snap[Len(snap)].seconds

\* the subscriptions: an onSnapshot call at i, ended by the subscriber's next
\* unsubscribe (or still open at the end of the log)
SubscriptionEnd(i) ==
    LET ends == {j \in LogEvents("unsubscribe") :
                    j > i /\ store.log[j].who = store.log[i].who}
    IN  IF ends = {} THEN Len(store.log) + 1
        ELSE CHOOSE j \in ends : \A k \in ends : j <= k
During(i) == (i + 1)..(SubscriptionEnd(i) - 1)
CallbacksOf(i) ==
    {k \in During(i) : store.log[k].ev = "callback" /\ store.log[k].who = store.log[i].who}
AddsSeenBy(i) ==
    {k \in During(i) : store.log[k].ev = "addDoc" /\ store.log[k].path = store.log[i].path}

\* C26: onSnapshot delivers one snapshot at subscription time, before anything
\* else happens, and then exactly one per addDoc on the subscribed path, at
\* once; an addDoc on another path triggers no callback for this subscriber;
\* no callback is invoked outside a subscription, so never after unsubscribe.
C26_OneSnapshotPerAdd ==
    /\ \A i \in LogEvents("onSnapshot") :
          /\ (i + 1) \in CallbacksOf(i)
          /\ Cardinality(CallbacksOf(i)) = 1 + Cardinality(AddsSeenBy(i))
          /\ \A k \in CallbacksOf(i) :
                /\ store.log[k].path = store.log[i].path
                /\ k = i + 1 \/ \E a \in AddsSeenBy(i) :
                      /\ a < k
                      /\ \A m \in (a + 1)..(k - 1) : store.log[m].ev = "callback"
    /\ \A k \in LogEvents("callback") :
          \E i \in LogEvents("onSnapshot") : k \in CallbacksOf(i)
    /\ \A l \in Range(store.listeners) :
          \E i \in LogEvents("onSnapshot") :
              /\ store.log[i].who = l.who /\ store.log[i].path = l.path
              /\ SubscriptionEnd(i) = Len(store.log) + 1

\* while the observer was subscribed to a path a document was added to
\* another path, where the hook was listening; the observer unsubscribed, and
\* then a document was added to its path
C26_Witness ==
    \E i \in LogEvents("onSnapshot") :
        /\ store.log[i].who = "observer"
        /\ \E k \in During(i) :
              store.log[k].ev = "addDoc" /\ store.log[k].path # store.log[i].path
        /\ \E k \in LogEvents("addDoc") :
              k > SubscriptionEnd(i) /\ store.log[k].path = store.log[i].path
        /\ \E j \in LogEvents("onSnapshot") :
              store.log[j].who = "useFirestore" /\ AddsSeenBy(j) # {}

\* C27: addMessage with the user id initialised appends exactly one document,
\* the one it was given, to the message path of the current user and current
\* subject; called before the user id is initialised it writes nothing.  The
\* lists of all other paths are unchanged in both cases.
C27_AddMessageFrame ==
    [][store'.adds = store.adds + 1 =>
          LET p == Path("local-user", store.subject)
              n == Len(store.docs[p])
          IN  IF store.userId = None
              THEN store'.docs = store.docs
              ELSE /\ Len(store'.docs[p]) = n + 1
                   /\ SubSeq(store'.docs[p], 1, n) = store.docs[p]
                   /\ store'.docs[p][n + 1].content = <<"text", store.adds + 1>>
                   /\ store'.docs[p][n + 1].role = "USER"
                   /\ \A q \in Paths \ {p} : store'.docs[q] = store.docs[q]]_vars

\* addMessage was called before and after the user id was initialised, the
\* early call left every list empty, and documents sit under two subjects
C27_Witness ==
    /\ \E i \in LogEvents("addMessage") :
          /\ store.log[i].who = "null"
          /\ \A p \in Paths : AddedTo(p, i) = <<>>
          /\ (i + 1) \in DOMAIN store.log => store.log[i + 1].ev # "addDoc"
    /\ \E i \in LogEvents("addMessage") : store.log[i].who = "local-user"
    /\ \E p \in Paths : store.docs[p] # <<>>
    /\ store.adds = Cardinality(LogEvents("addDoc")) + 1

-----------------------------------------------------------------------------
(* useVoice: src/unnamed/part_000.  voice is                                *)
(*   supported   recognitionRef.current holds a recognition instance        *)
(*   isListening, transcript, error   the hook's state                      *)
(*   engine      the recognition instance: idle, starting (start() called,  *)
(*               onstart not yet fired), running, stopping (stop() called), *)
(*               failed (onerror fired, onend to come)                      *)
(*   log         the requests made to the instance and the events it fired  *)
(* The transcript is a sequence of words; ' ' is the separator the hook     *)
(* adds.                                                                    *)

SpeechErrors == {"no-speech", "not-allowed"}

\* event.results from event.resultIndex on: [isFinal, transcript]
SpeechResults ==
    {<<[isFinal |-> TRUE, transcript |-> <<"hello">>]>>,
     <<[isFinal |-> FALSE, transcript |-> <<"hel">>]>>,
     <<[isFinal |-> TRUE, transcript |-> <<"hello">>], [isFinal |-> FALSE, transcript |-> <<"wor">>]>>,
     <<[isFinal |-> FALSE, transcript |-> <<"he">>], [isFinal |-> TRUE, transcript |-> <<>>]>>}

VEvent(ev, err, results) == [ev |-> ev, err |-> err, results |-> results]

\* for (...) { if (event.results[i].isFinal) finalTrans += ...; else interimTrans += ... }
RECURSIVE FinalTrans(_)
FinalTrans(results) ==
    IF results = <<>>
    THEN <<>>
    ELSE (IF Head(results).isFinal THEN Head(results).transcript ELSE <<>>)
            \o FinalTrans(Tail(results))

\* Variant: interim results are appended as well.
V_OnResult_KeepsInterim(v, results) ==
    LET RECURSIVE All(_)
        All(rs) == IF rs = <<>> THEN <<>> ELSE Head(rs).transcript \o All(Tail(rs))
    IN  [v EXCEPT !.transcript = IF All(results) # <<>> THEN @ \o All(results) \o <<" ">> ELSE @,
                  !.log = Append(@, VEvent("onresult", "", results))]

\* onresult: if (finalTrans) setTranscript(prev => prev + finalTrans + ' ')
V_OnResult(v, results) ==
    LET finalTrans == FinalTrans(results)
    IN  [v EXCEPT !.transcript = IF finalTrans # <<>> THEN @ \o finalTrans \o <<" ">> ELSE @,
                  !.log = Append(@, VEvent("onresult", "", results))]

VoiceFrozen == <<MainVars, pin, pout, inv, store>>

\* the state after the mount effect
VoiceInit ==
    /\ hook = "useAI_attachment"
    /\ env = [groq |-> TRUE, gemini |-> TRUE, apiKey |-> TRUE]
    /\ req = [att |-> "none", text |-> <<>>, content |-> <<>>]
    /\ isLoading = FALSE
    /\ error = None
    /\ statusMessage = None
    /\ pc = "idle"
    /\ attempt = 0
    /\ trace = <<>>
    /\ outcome = NoOutcome
    /\ ncalls = 0
    /\ sent = <<>>
    /\ prev = NoPrev
    /\ pin = NoInput
    /\ pout = NoOutput
    /\ inv = Absent
    /\ store = Absent
    /\ \E supported \in BOOLEAN :
          voice = [supported |-> supported, isListening |-> FALSE, transcript |-> <<>>,
                   error |-> IF supported THEN None
                             ELSE Some("Web Speech API not supported in this browser."),
                   engine |-> "idle", log |-> <<>>]

VoiceBudget == Len(voice.log) < MaxVoiceLog

\* startListening: if (recognitionRef.current && !isListening) try { start() } catch {}
\* (start() on an instance that is not idle throws, and the throw is caught)
StartListening ==
    /\ VoiceBudget
    /\ voice.supported /\ ~voice.isListening
    /\ voice' = [voice EXCEPT !.engine = IF @ = "idle" THEN "starting" ELSE @,
                              !.log = Append(@, VEvent("start", "", <<>>))]
    /\ UNCHANGED VoiceFrozen

\* stopListening: if (recognitionRef.current && isListening) stop()
StopListening ==
    /\ VoiceBudget
    /\ voice.supported /\ voice.isListening
    /\ voice' = [voice EXCEPT !.engine = IF @ = "running" THEN "stopping" ELSE @,
                              !.log = Append(@, VEvent("stop", "", <<>>))]
    /\ UNCHANGED VoiceFrozen

\* resetTranscript: setTranscript('')
ResetTranscript ==
    /\ VoiceBudget
    /\ voice' = [voice EXCEPT !.transcript = <<>>,
                              !.log = Append(@, VEvent("resetTranscript", "", <<>>))]
    /\ UNCHANGED VoiceFrozen

\* onstart: setIsListening(true); setError(null)
OnStart ==
    /\ VoiceBudget
    /\ voice.engine = "starting"
    /\ voice' = [voice EXCEPT !.engine = "running", !.isListening = TRUE, !.error = None,
                              !.log = Append(@, VEvent("onstart", "", <<>>))]
    /\ UNCHANGED VoiceFrozen

\* onend: setIsListening(false)
OnEnd ==
    /\ VoiceBudget
    /\ voice.engine \in {"running", "stopping", "failed"}
    /\ voice' = [voice EXCEPT !.engine = "idle", !.isListening = FALSE,
                              !.log = Append(@, VEvent("onend", "", <<>>))]
    /\ UNCHANGED VoiceFrozen

\* onerror: setError(event.error); setIsListening(false)
OnError ==
    /\ VoiceBudget
    /\ voice.engine \in {"starting", "running", "stopping"}
    /\ \E e \in SpeechErrors :
          voice' = [voice EXCEPT !.engine = "failed", !.isListening = FALSE, !.error = Some(e),
                                 !.log = Append(@, VEvent("onerror", e, <<>>))]
    /\ UNCHANGED VoiceFrozen

\* onresult
OnResult ==
    /\ VoiceBudget
    /\ voice.engine \in {"running", "stopping"}
    /\ \E results \in SpeechResults : voice' = V_OnResult(voice, results)
    /\ UNCHANGED VoiceFrozen

VoiceNext ==
    \/ StartListening
    \/ StopListening
    \/ ResetTranscript
    \/ OnStart
    \/ OnEnd
    \/ OnError
    \/ OnResult

SpecVoice == VoiceInit /\ [][VoiceNext]_vars

VoiceEvents(evs) == {i \in DOMAIN voice.log : voice.log[i].ev \in evs}
Lifecycle == VoiceEvents({"onstart", "onend", "onerror"})
LastLifecycle ==
    IF Lifecycle = {} THEN "none"
    ELSE voice.log[CHOOSE i \in Lifecycle : \A j \in Lifecycle : j <= i].ev
\* the event or request this step added to the log
Happened(ev) ==
    /\ Len(voice'.log) = Len(voice.log) + 1
    /\ voice'.log[Len(voice'.log)].ev = ev
\* the final results of an onresult event, interim ones left out
FinalsOf(e) ==
    LET RECURSIVE Finals(_)
        Finals(rs) ==
            IF rs = <<>> THEN <<>>
            ELSE IF Head(rs).isFinal
                 THEN Head(rs).transcript \o Finals(Tail(rs))
                 ELSE Finals(Tail(rs))
    IN  Finals(e.results)

\* C28: in useVoice isListening is true exactly from an onstart event until
\* the next onend or onerror event; startListening requests a start only when
\* a recognition instance exists and isListening is false, stopListening
\* requests a stop only when isListening is true; onstart clears the error
\* and onerror sets it to the event's error; the transcript changes only by
\* resetTranscript setting it to the empty string or by an onresult event
\* appending its final results (and the separator), never its interim ones.
C28_ListeningAndTranscript ==
    /\ [](voice.isListening <=> LastLifecycle = "onstart")
    /\ [][/\ Happened("start") => (voice.supported /\ ~voice.isListening)
          /\ Happened("stop") => (voice.supported /\ voice.isListening)
          /\ Happened("onstart") => voice'.error = None
          /\ Happened("onerror") =>
                voice'.error = Some(voice'.log[Len(voice'.log)].err)
          /\ voice'.transcript # voice.transcript =>
                \/ Happened("resetTranscript") /\ voice'.transcript = <<>>
                \/ /\ Happened("onresult")
                   /\ FinalsOf(voice'.log[Len(voice'.log)]) # <<>>
                   /\ voice'.transcript =
                         voice.transcript \o FinalsOf(voice'.log[Len(voice'.log)]) \o <<" ">>
          /\ (voice'.error # voice.error) => (Happened("onstart") \/ Happened("onerror"))]_vars

\* recognition started, a result with a final and an interim part arrived and
\* the final part is in the transcript, then an error ended the listening
C28_Witness ==
    /\ voice.transcript = <<"hello", " ">>
    /\ \E i \in VoiceEvents({"onresult"}) : Len(voice.log[i].results) = 2
    /\ LastLifecycle = "onerror"
    /\ voice.error # None
    /\ ~voice.isListening

=============================================================================
